---- MODULE Spec2Model ----
(***************************************************************************)
(* Model of the grasplan grasp editor (rqt_grasplan.py): the in-memory     *)
(* pose list, the selection flag, the messages published for               *)
(* visualisation, and one action per button handler.                       *)
(*                                                                         *)
(* Numbers.  Pose components are fixed-point integers, Ticks to the unit   *)
(* (one decimal more than the 6 decimals the editor writes to a file).     *)
(* Angles are whole multiples of pi (half turns), for which the sines and  *)
(* cosines of the half angles the quaternion conversion needs are exactly  *)
(* -1, 0 or 1; floating-point rounding (cos(pi/2) = 6e-17) is left out.    *)
(*                                                                         *)
(* Spec is the editor.  PlaceSpec is gen_place_poses_from_plane of         *)
(* support_plane_tools.py, one action per pass of its loops, the random    *)
(* draws taken from the corners of the plane; PlaceLive adds weak fairness *)
(* of those steps.  Its lengths and angles are counted in units of 10^-4.  *)
(* ToolsSpec is adjust_plane, obj_to_plane and gen_insert_poses_from_obj   *)
(* of the same file, one action per call, each call made on the plane the  *)
(* call before returned.  LongSpec is the editor started on a grasp file   *)
(* of LongLen poses.                                                       *)
(***************************************************************************)
EXTENDS Integers, Sequences, FiniteSets, Bags, TLC

\* --------------------------------------------------------------- bounds

\* A session is the start-up followed by at most MaxActions button presses.
MaxActions == 2

\* The index text box holds a negative number, 0, 1 or MaxNum.
MaxNum == 3

Nums == {0 - 2, 0, 1, MaxNum}

\* The repeat count of the circular pattern is -1, 1 or MaxRepeat.
MaxRepeat == 3

\* ------------------------------------------------------------- numbers

\* f'{x:.6f}' in write_grasps_to_yaml_file
Decimals == 6

RECURSIVE Pow10(_)
Pow10(n) == IF n = 0 THEN 1 ELSE 10 * Pow10(n - 1)

Ticks == Pow10(Decimals + 1)

\* selected_pose flags
SelectNone == -1

SelectAll == -10

\* ---------------------------------------------------- python list access

\* ps[i] is defined (no IndexError), negative indices counting from the end
PyIndexOK(ps, i) == (-Len(ps) <= i) /\ (i < Len(ps))

PyPos(ps, i) == IF i >= 0 THEN i + 1 ELSE Len(ps) + i + 1

PyGet(ps, i) == ps[PyPos(ps, i)]

\* a del that drops the first pose whatever the index
PyDel_drops_first(ps, i) == Tail(ps)

\* del ps[i]
PyDel(ps, i) ==
    SubSeq(ps, 1, PyPos(ps, i) - 1) \o SubSeq(ps, PyPos(ps, i) + 1, Len(ps))

\* ps[i] = v
PySet_at_head(ps, i, v) == [ps EXCEPT ![1] = v]

PySet(ps, i, v) == [ps EXCEPT ![PyPos(ps, i)] = v]

\* position of the first element equal to v (0 when there is none)
FirstIndexOf(ps, v) ==
    IF \E k \in 1..Len(ps) : ps[k] = v
    THEN CHOOSE k \in 1..Len(ps) : ps[k] = v /\ \A m \in 1..(k - 1) : ps[m] /= v
    ELSE 0

\* ps.remove(v): drops the first element equal to v (messages compare by value)
PyRemove(ps, v) ==
    LET at == FirstIndexOf(ps, v)
    IN  SubSeq(ps, 1, at - 1) \o SubSeq(ps, at + 1, Len(ps))

\* ---------------------------------------------------------- quaternions

\* cos and sin of a/2 for an angle of a half turns (a * pi)
CosHalf(a) == CASE a % 4 = 0 -> 1 [] a % 4 = 1 -> 0 [] a % 4 = 2 -> -1 [] OTHER -> 0

SinHalf(a) == CASE a % 4 = 0 -> 0 [] a % 4 = 1 -> 1 [] a % 4 = 2 -> 0 [] OTHER -> -1

\* tf.transformations.quaternion_from_euler(ai, aj, ak), axes 'sxyz': <<x, y, z, w>>
quaternion_from_euler(ai, aj, ak) ==
    LET ci == CosHalf(ai)
        si == SinHalf(ai)
        cj == CosHalf(aj)
        sj == SinHalf(aj)
        ck == CosHalf(ak)
        sk == SinHalf(ak)
        cc == ci * ck
        cs == ci * sk
        sc == si * ck
        ss == si * sk
    IN  << cj * sc - sj * cs,
           cj * ss + sj * cc,
           cj * cs - sj * sc,
           cj * cc + sj * ss >>

\* tf.transformations.quaternion_multiply(quaternion1, quaternion0)
quaternion_multiply(q1, q0) ==
    << q1[1] * q0[4] + q1[2] * q0[3] - q1[3] * q0[2] + q1[4] * q0[1],
       (0 - q1[1]) * q0[3] + q1[2] * q0[4] + q1[3] * q0[1] + q1[4] * q0[2],
       q1[1] * q0[2] - q1[2] * q0[1] + q1[3] * q0[4] + q1[4] * q0[3],
       (0 - q1[1]) * q0[1] - q1[2] * q0[2] - q1[3] * q0[3] + q1[4] * q0[4] >>

\* a rotate_quaternion that multiplies the two arrays element by element
rotate_quaternion_elementwise(quaternion, roll, pitch, yaw) ==
    LET angular_q == quaternion_from_euler(roll, pitch, yaw)
    IN  << angular_q[1] * quaternion[1], angular_q[2] * quaternion[2],
           angular_q[3] * quaternion[3], angular_q[4] * quaternion[4] >>

\* rotate_quaternion: the rotation is applied on the left, angular_q * q_orig
rotate_quaternion(quaternion, roll, pitch, yaw) ==
    quaternion_multiply(quaternion_from_euler(roll, pitch, yaw), quaternion)

\* list_to_pose_msg
list_to_pose_msg(linear, angular_q) == [position |-> linear, orientation |-> angular_q]

\* a pose with its orientation rotated, position kept (deepcopy, then .orientation = ...)
Rotated(pose, roll, pitch, yaw) ==
    [pose EXCEPT !.orientation = rotate_quaternion(pose.orientation, roll, pitch, yaw)]

\* ----------------------------------------------------------- the files

\* grasps_as_pose_array is None, or a PoseArray holding the list poses
NoArray == [set |-> FALSE, poses |-> << >>]

PoseArray(ps) == [set |-> TRUE, poses |-> ps]

\* the poses of the grasp file the model starts with (values in ticks)
PoseA == [position |-> << 1234567, 0, -2500000 >>,
          orientation |-> << 200000, 1000000, 5000000, 8600000 >>]

PoseB == [position |-> << 0, 4000013, 1000000 >>,
          orientation |-> << 0, 0, 0, 10000000 >>]

\* no path chosen yet (grasps_yaml_path = None)
NoPath == "None"

Paths == {"grasps.yaml", "broken.yaml", "missing.yaml"}

\* what a path holds: no file, text that is no YAML, or a mapping class -> poses
Absent == [kind |-> "absent", class |-> "", poses |-> << >>]

Malformed == [kind |-> "malformed", class |-> "", poses |-> << >>]

Mapping(class, ps) == [kind |-> "mapping", class |-> class, poses |-> ps]

\* a mapping whose class has the key grasp_poses with nothing under it (None)
NoList(class) == [kind |-> "nolist", class |-> class, poses |-> << >>]

\* the pose lists the grasp file may hold when the editor starts
StartLists == { << >>, << PoseA, PoseB >>, << PoseA, PoseB, PoseA >> }

InitialDisk(ps) ==
    [p \in Paths |->
        CASE p = "grasps.yaml" -> Mapping("relay", ps)
          [] p = "broken.yaml" -> Malformed
          [] OTHER -> Absent]

\* texts of the object name box: a class, a class with an instance id, another class
ObjectNames == {"relay", "relay_1", "klt_2"}

\* grasplan.common_grasp_tools.remove_object_id: the name without its instance id
remove_object_id(object_name) ==
    CASE object_name = "relay_1" -> "relay"
      [] object_name = "klt_2" -> "klt"
      [] OTHER -> object_name

\* ------------------------------------------------------------ the state

VARIABLES
    grasps_as_pose_array,   \* NoArray or PoseArray(list of poses)
    selected_pose,          \* SelectNone, SelectAll or the index typed
    grasps_yaml_path,       \* NoPath or a path
    disk,                   \* path -> what the file holds
    published,              \* the last highlight and pose array messages
    last,                   \* the last handler run: inputs read, how it ended
    prev,                   \* pose array and selection before that handler
    earlier,                \* the handler run before the last one, in short
    actions,                \* button presses so far
    place,                  \* the call of gen_place_poses_from_plane under way
    tool                    \* the calls of the other support plane functions

vars == << grasps_as_pose_array, selected_pose, grasps_yaml_path, disk,
           published, last, prev, earlier, actions, place, tool >>

\* The handlers are written over a record of the fields they read and write:
\*   grasps    self.grasps_as_pose_array
\*   sel       self.selected_pose
\*   pub       the last pair published by publish_grasps
\*   outcome   "done", "reported" (log_error was shown), "raised" (an exception
\*             left the handler)
Self == [grasps |-> grasps_as_pose_array, sel |-> selected_pose,
         pub |-> published, outcome |-> "done"]

\* publish_grasps
publish_grasps(self) ==
    [self EXCEPT !.pub = [highlight |-> self.sel, grasps |-> self.grasps]]

Raised(self) == [self EXCEPT !.outcome = "raised"]

\* log_error
log_error(self) == [self EXCEPT !.outcome = "reported"]

\* update_grasp_number: len(self.grasps_as_pose_array.poses), AttributeError on None
update_grasp_number(self) ==
    IF self.outcome = "raised" THEN self
    ELSE IF ~self.grasps.set THEN Raised(self)
    ELSE self

\* a number written with six decimals (f'{v:.6f}'): the nearest multiple of ten
\* ticks; the values of the model have no tie
Round6(v) ==
    LET m == IF v < 0 THEN 0 - v ELSE v
        r == ((m + 5) \div 10) * 10
    IN  IF v < 0 THEN 0 - r ELSE r

\* the translation and rotation lines written for one grasp, as read back
Written(grasp) ==
    [position |-> [k \in 1..3 |-> Round6(grasp.position[k])],
     orientation |-> [k \in 1..4 |-> Round6(grasp.orientation[k])]]

\* write_grasps_to_yaml_file: what the file holds afterwards.  The key is the
\* object name as typed; with no grasp the key grasp_poses has no value.
write_grasps_to_yaml_file(grasps, object_name) ==
    IF Len(grasps) = 0 THEN NoList(object_name)
    ELSE Mapping(object_name, [k \in 1..Len(grasps) |-> Written(grasps[k])])

\* handle_file_save_grasps_button: the disk afterwards and how the handler
\* ended; open(None, 'w+') raises
handle_file_save_grasps_button(self, object_name, path, files) ==
    IF ~self.grasps.set \/ path = NoPath
    THEN [self |-> Raised(self), disk |-> files]
    ELSE [self |-> self,
          disk |-> [files EXCEPT ![path] =
                       write_grasps_to_yaml_file(self.grasps.poses, object_name)]]

\* load_grasps_from_yaml: how it ends and what it returns (NoArray for None).
\* open() raises on a path that is None or names no file; a YAML error and a
\* missing class key are shown with log_error and None is returned; the loop
\* over a grasp_poses that is None raises.
load_grasps_from_yaml(object_name, path) ==
    IF path = NoPath \/ disk[path].kind = "absent"
    THEN [outcome |-> "raised", grasps |-> NoArray]
    ELSE IF disk[path].kind = "malformed"
    THEN [outcome |-> "reported", grasps |-> NoArray]
    ELSE IF remove_object_id(object_name) /= disk[path].class
    THEN [outcome |-> "reported", grasps |-> NoArray]
    ELSE IF disk[path].kind = "nolist"
    THEN [outcome |-> "raised", grasps |-> NoArray]
    ELSE [outcome |-> "done", grasps |-> PoseArray(disk[path].poses)]

\* handle_file_load_grasps_button
handle_file_load_grasps_button(self, object_name) ==
    LET loaded == load_grasps_from_yaml(object_name, grasps_yaml_path)
    IN  IF ~loaded.grasps.set
        THEN [self EXCEPT !.outcome = loaded.outcome]
        ELSE update_grasp_number(publish_grasps([self EXCEPT !.grasps = loaded.grasps]))

\* update_selected_pose: the handler's fields after it, and what it returns
update_selected_pose(self, chkAll, num) ==
    IF chkAll
    THEN [self |-> [self EXCEPT !.sel = SelectAll], ret |-> TRUE]
    ELSE IF ~self.grasps.set
    THEN [self |-> Raised(self), ret |-> FALSE]
    ELSE IF num >= Len(self.grasps.poses)
    THEN [self |-> log_error(self), ret |-> FALSE]
    ELSE [self |-> [self EXCEPT !.sel = num], ret |-> TRUE]

\* handle_grasp_s_select_button; loadSelected is chkTransformLoadSelected
handle_grasp_s_select_button(self, chkAll, num, loadSelected) ==
    LET u == update_selected_pose(self, chkAll, num)
        s1 == publish_grasps(u.self)
    IN  IF ~u.ret THEN u.self
        ELSE IF loadSelected /\ s1.sel /= SelectAll /\ s1.sel /= SelectNone
                /\ ~PyIndexOK(s1.grasps.poses, s1.sel)
        THEN Raised(s1)
        ELSE s1

\* an unselect that empties the list as well
unselect_clears_list(self) ==
    publish_grasps([self EXCEPT !.sel = SelectNone, !.grasps = PoseArray(<< >>)])

\* handle_grasp_s_unselect_button
handle_grasp_s_unselect_button(self) ==
    publish_grasps([self EXCEPT !.sel = SelectNone])

\* a delete-all that keeps the last pose instead of pose 0
delete_all_keeps_last(poses) ==
    IF Len(poses) = 1 THEN << >> ELSE << poses[Len(poses)] >>

\* the "all" branch of the delete handler on a non-empty list: a list of one
\* pose is emptied, a longer one is cut down to a copy of its pose 0
delete_all(poses) ==
    IF Len(poses) = 1 THEN << >> ELSE << poses[1] >>

\* handle_grasp_s_delete_button; poses[0] of an empty list is an IndexError
handle_grasp_s_delete_button(self, chkAll, num) ==
    IF chkAll
    THEN IF ~self.grasps.set THEN Raised(self)
         ELSE IF Len(self.grasps.poses) = 0 THEN Raised(self)
         ELSE update_grasp_number(publish_grasps(
                  [self EXCEPT !.grasps.poses = delete_all(self.grasps.poses),
                               !.sel = SelectNone]))
    ELSE LET u == update_selected_pose(self, chkAll, num)
         IN  IF ~u.ret THEN update_grasp_number(u.self)
             ELSE IF ~PyIndexOK(u.self.grasps.poses, u.self.sel)
             THEN Raised(u.self)
             ELSE update_grasp_number(publish_grasps(
                      [u.self EXCEPT !.grasps.poses = PyDel(u.self.grasps.poses, u.self.sel),
                                     !.sel = SelectNone]))

\* a mirror loop that removes the original whatever the "replace" button says
RECURSIVE mirror_loop_always_removes(_, _, _, _, _, _, _)
mirror_loop_always_removes(poses, static_grasps, k, roll, pitch, yaw, replace) ==
    IF k > Len(static_grasps) THEN poses
    ELSE mirror_loop_always_removes(
             Append(PyRemove(poses, static_grasps[k]),
                    Rotated(static_grasps[k], roll, pitch, yaw)),
             static_grasps, k + 1, roll, pitch, yaw, replace)

\* the mirror loop over static_grasps[k..]: each derived grasp is appended,
\* after the grasp it came from is removed when optEditGHandlingCopyR is checked
RECURSIVE mirror_loop(_, _, _, _, _, _, _)
mirror_loop(poses, static_grasps, k, roll, pitch, yaw, replace) ==
    IF k > Len(static_grasps) THEN poses
    ELSE LET grasp_pose == static_grasps[k]
             derived_grasp == Rotated(grasp_pose, roll, pitch, yaw)
             kept == IF replace THEN PyRemove(poses, grasp_pose) ELSE poses
         IN  mirror_loop(Append(kept, derived_grasp), static_grasps, k + 1,
                         roll, pitch, yaw, replace)

\* an inner loop that derives every grasp from the source, not from the last one
RECURSIVE pattern_loop_from_source(_, _, _, _, _, _)
pattern_loop_from_source(poses, grasp_pose, left, roll, pitch, yaw) ==
    IF left <= 0 THEN poses
    ELSE pattern_loop_from_source(Append(poses, Rotated(grasp_pose, roll, pitch, yaw)),
                                  grasp_pose, left - 1, roll, pitch, yaw)

\* the inner loop of the circular pattern, `left` iterations to go: each derived
\* grasp is appended and becomes the grasp the next one is derived from
RECURSIVE pattern_loop(_, _, _, _, _, _)
pattern_loop(poses, grasp_pose, left, roll, pitch, yaw) ==
    IF left <= 0 THEN poses
    ELSE LET derived_grasp == Rotated(grasp_pose, roll, pitch, yaw)
         IN  pattern_loop(Append(poses, derived_grasp), derived_grasp, left - 1,
                          roll, pitch, yaw)

\* the outer loop of the circular pattern over static_grasps[k..]
RECURSIVE circular_loop(_, _, _, _, _, _, _)
circular_loop(poses, static_grasps, k, number_of_grasps, roll, pitch, yaw) ==
    IF k > Len(static_grasps) THEN poses
    ELSE circular_loop(
             pattern_loop(poses, static_grasps[k], number_of_grasps - 1, roll, pitch, yaw),
             static_grasps, k + 1, number_of_grasps, roll, pitch, yaw)

\* a circular pattern that leaves the selection as update_selected_pose set it
pattern_selection_kept(poses, before, sel) == sel

\* the selection after the circular loops: every appended grasp is selected in
\* turn, so the last pose of the list if one was appended
pattern_selection(poses, before, sel) ==
    IF Len(poses) > Len(before) THEN Len(poses) - 1 ELSE sel

\* an angle on each checked axis
AxisAngle(checked, angle) == IF checked THEN angle ELSE 0

\* handle_edit_g_apply_button.  pattern is the radio button checked ("mirror" or
\* "circular"), axes the three axis check boxes, replace optEditGHandlingCopyR,
\* ang_step the step in half turns, number_of_grasps the repeat count.
handle_edit_g_apply_button(self, pattern, chkAll, num, axes, replace, ang_step, number_of_grasps) ==
    IF ~self.grasps.set THEN Raised(self)
    ELSE IF self.sel /= SelectAll /\ ~PyIndexOK(self.grasps.poses, self.sel)
    THEN Raised(self)
    ELSE
    LET static_grasps == IF self.sel = SelectAll THEN self.grasps.poses
                         ELSE << PyGet(self.grasps.poses, self.sel) >>
        u == update_selected_pose(self, chkAll, num)
    IN  IF pattern = "mirror"
        THEN IF u.ret
             THEN update_grasp_number(publish_grasps(
                      [u.self EXCEPT !.grasps.poses =
                          mirror_loop(self.grasps.poses, static_grasps, 1,
                                      AxisAngle(axes[1], 1), AxisAngle(axes[2], 1),
                                      AxisAngle(axes[3], 1), replace)]))
             ELSE update_grasp_number(publish_grasps(u.self))
        ELSE IF number_of_grasps < 0 THEN log_error(self)
        ELSE IF u.ret
             THEN LET poses == circular_loop(self.grasps.poses, static_grasps, 1,
                                   number_of_grasps, AxisAngle(axes[1], ang_step),
                                   AxisAngle(axes[2], ang_step), AxisAngle(axes[3], ang_step))
                  IN  update_grasp_number(publish_grasps(
                          [u.self EXCEPT !.grasps.poses = poses,
                                         !.sel = pattern_selection(poses, self.grasps.poses,
                                                                   u.self.sel)]))
             ELSE update_grasp_number(u.self)

\* read_transform(apply_rpy_to_q=True): the translation boxes (in ticks) and the
\* quaternion of the roll, pitch, yaw boxes (half turns), as pose components
read_transform(linear, angular_rpy) ==
    LET q == quaternion_from_euler(angular_rpy[1], angular_rpy[2], angular_rpy[3])
    IN  [linear |-> linear, angular_rpy |-> angular_rpy,
         angular_q |-> << q[1] * Ticks, q[2] * Ticks, q[3] * Ticks, q[4] * Ticks >>]

\* handle_transform_apply_button
handle_transform_apply_button(self, linear, angular_rpy) ==
    LET t == read_transform(linear, angular_rpy)
    IN  IF ~self.grasps.set THEN Raised(self)
        ELSE IF self.sel = SelectAll \/ self.sel = SelectNone
        THEN publish_grasps(
                 [self EXCEPT !.grasps.poses =
                     [k \in DOMAIN self.grasps.poses |->
                         Rotated(self.grasps.poses[k], t.angular_rpy[1], t.angular_rpy[2],
                                 t.angular_rpy[3])]])
        ELSE IF ~PyIndexOK(self.grasps.poses, self.sel) THEN Raised(self)
        ELSE publish_grasps(
                 [self EXCEPT !.grasps.poses =
                     PySet(self.grasps.poses, self.sel,
                           list_to_pose_msg(t.linear, t.angular_q))])

\* a Create grasp that puts the new pose in front of the list
create_grasp_at_head(self, linear, angular_rpy) ==
    LET t == read_transform(linear, angular_rpy)
    IN  IF ~self.grasps.set THEN Raised(self)
        ELSE update_grasp_number(publish_grasps(
                 [self EXCEPT !.grasps.poses =
                                  << list_to_pose_msg(t.linear, t.angular_q) >>
                                      \o self.grasps.poses,
                              !.sel = Len(self.grasps.poses)]))

\* handle_transform_create_grasp_button
handle_transform_create_grasp_button(self, linear, angular_rpy) ==
    LET t == read_transform(linear, angular_rpy)
    IN  IF ~self.grasps.set THEN Raised(self)
        ELSE update_grasp_number(publish_grasps(
                 [self EXCEPT !.grasps.poses =
                                  Append(self.grasps.poses,
                                         list_to_pose_msg(t.linear, t.angular_q)),
                              !.sel = Len(self.grasps.poses)]))

\* ---------------------------------------------------------- the actions

\* the texts of the translation boxes (ticks) and of the roll, pitch, yaw boxes
Linears == { << 500000, -1000000, 3000011 >> }

RPYs == { << 0, 0, 0 >>, << 1, 0, 1 >> }

\* the axis check boxes X, Y, Z: none, one of them, or all three checked
NoAxes == << FALSE, FALSE, FALSE >>

AxisChoices == { NoAxes, << TRUE, FALSE, FALSE >>, << FALSE, TRUE, FALSE >>,
                 << FALSE, FALSE, TRUE >>, << TRUE, TRUE, TRUE >> }

\* steps of the circular pattern, in half turns
Steps == {1}

Counts == {0 - 1, 1, MaxRepeat}

\* the inputs a handler did not read
NoInputs == [op |-> "init", outcome |-> "done", chkAll |-> FALSE, num |-> 0,
             name |-> "", loadSelected |-> FALSE, pattern |-> "", axes |-> NoAxes,
             replace |-> FALSE, ang_step |-> 0, number_of_grasps |-> 0,
             linear |-> << 0, 0, 0 >>, angular_rpy |-> << 0, 0, 0 >>]

\* ------------------------------------- support_plane_tools: place poses

\* candidates and yaws are rounded to four decimals: lengths and angles of the
\* placement functions are counted in units of 10^-4
PlaceDecimals == 4

\* count > 50000 ends the rejection loop
RetryCap == 50000

\* number_of_poses > 100 relaxes min_dist to 0.03
RelaxAbove == 100

RelaxedMinDist == 300

\* number_of_poses > 20 gives every position a sweep of 7 yaws, 0.5 rad apart
SweepAbove == 20

SweepLen == 7

YawStep == 5000

\* the offset attached_obj_height adds by default (0.001)
HeightOffset == 10

\* math.dist([candidate_x, candidate_y], p) > min_dist, on exact numbers
FartherThan(p, candidate_x, candidate_y, min_dist) ==
    \/ min_dist < 0
    \/ (candidate_x - p[1]) * (candidate_x - p[1])
          + (candidate_y - p[2]) * (candidate_y - p[2]) > min_dist * min_dist

\* a separation test with the comparison turned round
well_separated_inverted(x_y_list, candidate_x, candidate_y, min_dist) ==
    \A k \in 1..Len(x_y_list) :
        ~FartherThan(x_y_list[k], candidate_x, candidate_y, min_dist)

\* well_separated: true_count == len(x_y_list)
well_separated(x_y_list, candidate_x, candidate_y, min_dist) ==
    \A k \in 1..Len(x_y_list) :
        FartherThan(x_y_list[k], candidate_x, candidate_y, min_dist)

\* a relaxation that starts at 100 poses already
relaxed_min_dist_from(number_of_poses, min_dist) ==
    IF number_of_poses >= RelaxAbove THEN RelaxedMinDist ELSE min_dist

\* min_dist after the first statement of gen_place_poses_from_plane
relaxed_min_dist(number_of_poses, min_dist) ==
    IF number_of_poses > RelaxAbove THEN RelaxedMinDist ELSE min_dist

\* a counter that is not advanced
retry_not_counted(count) == count

\* count += 1
retry_counted(count) == count + 1

\* the planning scene of a call: whether it knows the support object, the z of
\* that object's pose, and dimensions[2] of the first attached object
Scenes == { [known |-> TRUE, z |-> 4000, dim |-> 1000],
            [known |-> FALSE, z |-> 0, dim |-> 0] }

\* attached_obj_height: "raise" for the ValueError of get_obj_from_planning_scene
attached_obj_height(scene) ==
    IF ~scene.known THEN [raised |-> TRUE, z |-> 0]
    ELSE [raised |-> FALSE, z |-> scene.dim + scene.z * 2 + HeightOffset]

\* roll of the object class (the drill is laid on its side: -pi/2, rounded here)
ClassRoll(object_class) ==
    IF object_class = "power_drill_with_grip" THEN 0 - 15708 ELSE 0

\* a sweep that starts at 20 poses already
pose_yaws_sweep_from(number_of_poses, yaw) ==
    IF number_of_poses >= SweepAbove
    THEN [k \in 1..SweepLen |-> (k - 1) * YawStep]
    ELSE << yaw >>

\* the yaws of the poses made for one position: the yaw drawn, or the sweep
pose_yaws(number_of_poses, yaw) ==
    IF number_of_poses > SweepAbove
    THEN [k \in 1..SweepLen |-> (k - 1) * YawStep]
    ELSE << yaw >>

\* the poses appended for one accepted position, instance ids from place_poses_id;
\* the orientation is kept as the angles given to quaternion_from_euler
NewObjects(object_class, candidate, z, yaws, place_poses_id) ==
    [k \in 1..Len(yaws) |->
        [class_id |-> object_class, instance_id |-> place_poses_id + k - 1,
         position |-> << candidate[1], candidate[2], z >>,
         rpy |-> << ClassRoll(object_class), 0, yaws[k] >>]]

\* what random.uniform over the plane, rounded, may return: the x of plane[0]
\* and plane[1], the y of plane[0] and plane[3]
Candidates(plane) == { plane.x0, plane.x1 } \X { plane.y0, plane.y3 }

\* a plane with two candidate positions 0.5 apart, and one shrunk to a point
WidePlane == [x0 |-> 0, x1 |-> 5000, y0 |-> 0, y3 |-> 0]

PointPlane == [x0 |-> 1000, x1 |-> 1000, y0 |-> 2000, y3 |-> 2000]

\* what random.uniform(0, pi), rounded, may return
YawDraws == { 15708 }

\* the requests made with few poses
MaxPoses == 2

\* min_dist asked for: below every distance, and 0.2
MinDists == { 0 - 1, 2000 }

SmallCalls ==
    [object_class : {"relay"}, number_of_poses : 0..MaxPoses, min_dist : MinDists,
     plane : {WidePlane, PointPlane}, ignored : BOOLEAN, scene : Scenes]

\* the requests around the two thresholds: the support object is in
\* ignore_min_dist_list, so that no candidate is tried twice
LargeCalls ==
    [object_class : {"relay", "power_drill_with_grip"},
     number_of_poses : {SweepAbove, SweepAbove + 1, RelaxAbove, RelaxAbove + 1},
     min_dist : MinDists, plane : {PointPlane}, ignored : {TRUE},
     scene : {s \in Scenes : s.known}]

\* no call of gen_place_poses_from_plane is under way
PlaceIdle ==
    [pc |-> "idle", args |-> << >>, min_dist |-> 0, x_y_list |-> << >>, done |-> 0,
     count |-> 0, place_poses_id |-> 0, objects |-> << >>, warned |-> FALSE]

\* ------------------------- support_plane_tools: planes and insert poses

\* a geometry_msgs Point, in units of 10^-4
Pt(x, y, z) == [x |-> x, y |-> y, z |-> z]

SetMin(S) == CHOOSE m \in S : \A s \in S : m <= s

SetMax(S) == CHOOSE m \in S : \A s \in S : m >= s

\* the z values of a list of points: set([p.z for p in plane])
ZValues(plane) == { plane[k].z : k \in 1..Len(plane) }

\* an adjust_plane that takes the first and the third point for the bounds
adjust_plane_by_corners(plane, x_extend, y_extend, x_offset, y_offset) ==
    IF Cardinality(ZValues(plane)) > 1 THEN [raised |-> TRUE, points |-> << >>]
    ELSE LET min_x == plane[1].x + x_offset
             max_x == plane[3].x + x_offset
             min_y == plane[1].y + y_offset
             max_y == plane[3].y + y_offset
             z == plane[1].z
         IN  [raised |-> FALSE,
              points |-> << Pt(min_x - x_extend, min_y - y_extend, z),
                            Pt(max_x + x_extend, min_y - y_extend, z),
                            Pt(max_x + x_extend, max_y + y_extend, z),
                            Pt(min_x - x_extend, max_y + y_extend, z) >>]

\* an adjust_plane that returns its corners clockwise instead of anticlockwise
adjust_plane_clockwise(plane, x_extend, y_extend, x_offset, y_offset) ==
    IF Cardinality(ZValues(plane)) > 1 THEN [raised |-> TRUE, points |-> << >>]
    ELSE LET moved == [k \in 1..Len(plane) |->
                          Pt(plane[k].x + x_offset, plane[k].y + y_offset, plane[k].z)]
             min_x == SetMin({ moved[k].x : k \in 1..Len(moved) })
             max_x == SetMax({ moved[k].x : k \in 1..Len(moved) })
             min_y == SetMin({ moved[k].y : k \in 1..Len(moved) })
             max_y == SetMax({ moved[k].y : k \in 1..Len(moved) })
             z == moved[1].z
         IN  [raised |-> FALSE,
              points |-> << Pt(min_x - x_extend, min_y - y_extend, z),
                            Pt(min_x - x_extend, max_y + y_extend, z),
                            Pt(max_x + x_extend, max_y + y_extend, z),
                            Pt(max_x + x_extend, min_y - y_extend, z) >>]

\* adjust_plane: the ValueError for points of more than one z, or the four
\* points returned
adjust_plane(plane, x_extend, y_extend, x_offset, y_offset) ==
    IF Cardinality(ZValues(plane)) > 1 THEN [raised |-> TRUE, points |-> << >>]
    ELSE LET moved == [k \in 1..Len(plane) |->
                          Pt(plane[k].x + x_offset, plane[k].y + y_offset, plane[k].z)]
             min_x == SetMin({ moved[k].x : k \in 1..Len(moved) })
             max_x == SetMax({ moved[k].x : k \in 1..Len(moved) })
             min_y == SetMin({ moved[k].y : k \in 1..Len(moved) })
             max_y == SetMax({ moved[k].y : k \in 1..Len(moved) })
             z == moved[1].z
         IN  [raised |-> FALSE,
              points |-> << Pt(min_x - x_extend, min_y - y_extend, z),
                            Pt(max_x + x_extend, min_y - y_extend, z),
                            Pt(max_x + x_extend, max_y + y_extend, z),
                            Pt(min_x - x_extend, max_y + y_extend, z) >>]

\* tf.transformations.quaternion_matrix, rotation part: the quaternion is
\* divided by its norm first, so that it may be given up to a positive factor;
\* the all-zero quaternion gives the identity
quaternion_matrix(q) ==
    LET x == q[1]
        y == q[2]
        z == q[3]
        w == q[4]
        n == x * x + y * y + z * z + w * w
    IN  IF n = 0 THEN << << 1, 0, 0 >>, << 0, 1, 0 >>, << 0, 0, 1 >> >>
        ELSE << << (n - 2 * (y * y + z * z)) \div n, (2 * (x * y - z * w)) \div n,
                   (2 * (x * z + y * w)) \div n >>,
                << (2 * (x * y + z * w)) \div n, (n - 2 * (x * x + z * z)) \div n,
                   (2 * (y * z - x * w)) \div n >>,
                << (2 * (x * z - y * w)) \div n, (2 * (y * z + x * w)) \div n,
                   (n - 2 * (x * x + y * y)) \div n >> >>

\* math.atan2 in quarter turns, for the entries 0, 1, -1 of a matrix that
\* turns the axes into one another
Atan2Q(y, x) ==
    CASE y = 0 /\ x >= 0 -> 0
      [] y = 0 /\ x < 0 -> 2
      [] y > 0 -> 1
      [] OTHER -> 0 - 1

\* tf.transformations.euler_from_quaternion (axes 'sxyz'), angles in quarter turns
euler_from_quaternion(q) ==
    LET M == quaternion_matrix(q)
        cy2 == M[1][1] * M[1][1] + M[2][1] * M[2][1]
    IN  IF cy2 > 0
        THEN << Atan2Q(M[3][2], M[3][3]), Atan2Q(0 - M[3][1], 1), Atan2Q(M[2][1], M[1][1]) >>
        ELSE << Atan2Q(0 - M[2][3], M[2][2]), Atan2Q(0 - M[3][1], 0), 0 >>

\* math.cos and math.sin of quarter turns
CosQ(a) == CASE a % 4 = 0 -> 1 [] a % 4 = 2 -> 0 - 1 [] OTHER -> 0

SinQ(a) == CASE a % 4 = 1 -> 1 [] a % 4 = 3 -> 0 - 1 [] OTHER -> 0

\* shape_msgs SolidPrimitive.BOX
BoxType == 1

\* the offset obj_to_plane adds by default (0.001)
PlaneOffset == 10

\* obj_to_plane on what the planning scene holds under the name support_obj:
\* the ValueError of get_obj_from_planning_scene or of the two tests, or the
\* four corners returned.  The conversion is looked up as
\* tf.euler_from_quaternion, in the package and not in tf.transformations
\* where every other call of the repository finds it: tf_exports tells whether
\* the tf installed has that name, and without it the lookup raises
\* AttributeError
obj_to_plane(object, offset, tf_exports) ==
    IF ~object.known THEN [raised |-> TRUE, points |-> << >>]
    ELSE IF Len(object.primitives) /= 1 \/ object.primitives[1].type /= BoxType
    THEN [raised |-> TRUE, points |-> << >>]
    ELSE IF ~tf_exports THEN [raised |-> TRUE, points |-> << >>]
    ELSE LET rotation_angle == euler_from_quaternion(object.orientation)
             half_width == object.primitives[1].dimensions[1] \div 2
             half_depth == object.primitives[1].dimensions[2] \div 2
             center_point == << object.position[1], object.position[2],
                                object.position[3] * 2 >>
             corner_offsets == << << half_width, half_depth >>,
                                  << 0 - half_width, half_depth >>,
                                  << 0 - half_width, 0 - half_depth >>,
                                  << half_width, 0 - half_depth >> >>
         IN  IF rotation_angle[1] /= 0 \/ rotation_angle[2] /= 0
             THEN [raised |-> TRUE, points |-> << >>]
             ELSE [raised |-> FALSE,
                   points |-> [k \in 1..4 |->
                       Pt(center_point[1] + corner_offsets[k][1] * CosQ(rotation_angle[3])
                              - corner_offsets[k][2] * SinQ(rotation_angle[3]),
                          center_point[2] + corner_offsets[k][1] * SinQ(rotation_angle[3])
                              + corner_offsets[k][2] * CosQ(rotation_angle[3]),
                          center_point[3] + offset)]]

\* what gen_place_poses_from_plane reads of a list of four points
PlaneOfPoints(points) ==
    [x0 |-> points[1].x, x1 |-> points[2].x, y0 |-> points[1].y, y3 |-> points[4].y]

\* gen_insert_poses_from_obj counts its angles in units of 10^-5 (3.14159), and
\* the components of the support orientation in units of 1 / QScale (1.54)
QScale == 100

InsertSweepLen == 7

InsertYawStep == 50000

InsoleYawStep == 314159

QuarterTurn == 157080

\* roll of the object class: -pi / 2 for the drill, -1.54 for the insole
InsertRoll(object_class) ==
    CASE object_class = "power_drill_with_grip" -> 0 - QuarterTurn
      [] object_class = "insole" -> 0 - 154000
      [] OTHER -> 0

\* a second pose turned about the roll axis instead
turned_about_roll(q) ==
    LET euler_rot == euler_from_quaternion(q)
        q_new == quaternion_from_euler(euler_rot[1] \div 2 + 1, euler_rot[2] \div 2,
                                       euler_rot[3] \div 2)
    IN  [k \in 1..4 |-> QScale * q_new[k]]

\* q_new of the aligned branch: quaternion_from_euler(euler_rot[0], euler_rot[1],
\* euler_rot[2] + 3.14159), with 3.14159 taken as half a turn
turned(q) ==
    LET euler_rot == euler_from_quaternion(q)
        q_new == quaternion_from_euler(euler_rot[1] \div 2, euler_rot[2] \div 2,
                                       euler_rot[3] \div 2 + 1)
    IN  [k \in 1..4 |-> QScale * q_new[k]]

\* an orientation given by its four components, or by the angles that
\* quaternion_from_euler was called with
AsQuaternion(q) == [form |-> "quaternion", value |-> q]

AsEuler(roll, pitch, yaw) == [form |-> "euler", value |-> << roll, pitch, yaw >>]

\* gen_insert_poses_from_obj: object_list_msg.objects
gen_insert_poses_from_obj(object_class, support_object_pose, obj_height, same_orientation_as_support_obj) ==
    LET position == << support_object_pose.position[1], support_object_pose.position[2],
                       support_object_pose.position[3] + obj_height >>
        q == support_object_pose.orientation
        euler_rot == euler_from_quaternion(q)
        ObjectPose(id, orientation) ==
            [class_id |-> object_class, instance_id |-> id, position |-> position,
             orientation |-> orientation]
    IN  IF ~same_orientation_as_support_obj
        THEN [i \in 1..InsertSweepLen |->
                 ObjectPose(i, AsEuler(InsertRoll(object_class), 0,
                     (i - 1) * (IF object_class = "insole" THEN InsoleYawStep
                                ELSE InsertYawStep)))]
        ELSE << ObjectPose(1, AsQuaternion(IF object_class = "insole"
                                              THEN [q EXCEPT ![1] = @ - 154]
                                              ELSE q)),
                ObjectPose(2, IF object_class = "insole"
                              THEN AsEuler(0 - 154000, euler_rot[2] * QuarterTurn,
                                           euler_rot[3] * QuarterTurn + 314159)
                              ELSE AsQuaternion(turned(q))) >>

\* ----- the inputs of adjust_plane, obj_to_plane and gen_insert_poses_from_obj

\* a rectangle 0.4 by 0.2 at z = 0.5, its corners in the order adjust_plane
\* returns them, the same corners in another order, and four points of two z
Rectangle == << Pt(0, 0, 5000), Pt(4000, 0, 5000), Pt(4000, 2000, 5000), Pt(0, 2000, 5000) >>

Shuffled == << Pt(4000, 2000, 5000), Pt(0, 0, 5000), Pt(0, 2000, 5000), Pt(4000, 0, 5000) >>

Tilted == << Pt(0, 0, 5000), Pt(4000, 0, 5000), Pt(4000, 2000, 5200), Pt(0, 2000, 5200) >>

StartPlanes == { Rectangle, Shuffled, Tilted }

\* x_extend: shrinking by more and by less than half the width, and growing
Extends == { 0 - 3000, 0 - 1000, 0, 1000, 3000 }

\* the other three deltas: all zero, or an extension in y and an offset in x and y
AdjustArgs ==
    { [x_extend |-> d, y_extend |-> e[1], x_offset |-> e[2], y_offset |-> e[3]] :
          d \in Extends, e \in { << 0, 0, 0 >>, << 500, 700, 0 - 300 >> } }

Box(width, depth, height) == [type |-> BoxType, dimensions |-> << width, depth, height >>]

Sphere == [type |-> 2, dimensions |-> << 1000 >>]

\* orientations of the support object, up to a positive factor: none, a
\* quarter and a half turn of yaw, a half turn of roll, a quarter turn of pitch
BoxOrientations ==
    { << 0, 0, 0, 1 >>, << 0, 0, 1, 1 >>, << 0, 0, 1, 0 >>, << 1, 0, 0, 0 >>, << 0, 1, 0, 1 >> }

\* what the planning scene holds under the name asked for: nothing, or an
\* object of some primitives; a box 0.2 high stands on the ground with its
\* centre at z = 0.1 and on a table with its centre at z = 0.4
SceneObjects ==
    { [known |-> FALSE, primitives |-> << >>, position |-> << 0, 0, 0 >>,
       orientation |-> << 0, 0, 0, 1 >>] }
    \cup [known : {TRUE},
          primitives : { << Sphere >>, << >>,
                         << Box(4000, 2000, 2000), Box(4000, 2000, 2000) >> },
          position : { << 1000, 500, 1000 >> },
          orientation : { << 0, 0, 0, 1 >> }]
    \cup [known : {TRUE},
          primitives : { << Box(4000, 2000, 2000) >> },
          position : { << 1000, 500, 1000 >>, << 1000, 500, 4000 >> },
          orientation : BoxOrientations]

\* support poses: the half turns about the axes, one with all signs turned
SupportPoses ==
    [position : { << 1000, 500, 4000 >> },
     orientation : { << 0, 0, 0, QScale >>, << 0, 0, QScale, 0 >>, << QScale, 0, 0, 0 >>,
                     << 0, QScale, 0, 0 >>, << 0, 0, 0, 0 - QScale >> }]

InsertArgs ==
    [object_class : {"relay", "power_drill_with_grip", "insole"},
     support_object_pose : SupportPoses, obj_height : {0, 1500}, same : BOOLEAN]

\* the calls made in a row
MaxCalls == 2

NoCall == [op |-> "none", args |-> << >>, input |-> << >>, raised |-> FALSE]

\* no call was made yet: plane is the list of points at hand
ToolIdle(plane) ==
    [calls |-> 0, op |-> "none", args |-> << >>, input |-> << >>, raised |-> FALSE,
     plane |-> plane, objects |-> << >>, candidate |-> << >>, before |-> NoCall]

\* --------------------------------------------------- the editor's actions

\* the constructor: without both parameters, or when the first load returns
\* None, grasps_as_pose_array stays None and update_grasp_number raises
Construct(path) ==
    LET loaded == load_grasps_from_yaml("relay", path)
        s0 == [grasps |-> loaded.grasps, sel |-> SelectNone,
               pub |-> [highlight |-> SelectNone, grasps |-> loaded.grasps],
               outcome |-> "done"]
    IN  IF loaded.outcome = "raised" THEN Raised(s0) ELSE update_grasp_number(s0)

Init ==
    /\ \E ps \in StartLists : disk = InitialDisk(ps)
    /\ \E path \in Paths \cup {NoPath} :
          /\ grasps_yaml_path = path
          /\ grasps_as_pose_array = Construct(path).grasps
          /\ selected_pose = Construct(path).sel
          /\ published = Construct(path).pub
          /\ last = [NoInputs EXCEPT !.outcome = Construct(path).outcome]
    /\ prev = [grasps |-> NoArray, sel |-> SelectNone]
    /\ earlier = [op |-> "none", chkAll |-> FALSE, len |-> 0, name |-> "", outcome |-> "done"]
    /\ actions = 0
    /\ place = PlaceIdle
    /\ tool = ToolIdle(<< >>)

\* the editor came up: its widget was added and its buttons can be pressed
Started == ~(last.op = "init" /\ last.outcome = "raised")

\* a button can be pressed: the editor is up and the session goes on
CanPress == Started /\ actions < MaxActions

\* one button press: the handler ran from Self and ended as self
Press(inputs, self) ==
    /\ actions' = actions + 1
    /\ grasps_as_pose_array' = self.grasps
    /\ selected_pose' = self.sel
    /\ published' = self.pub
    /\ last' = [inputs EXCEPT !.outcome = self.outcome]
    /\ prev' = [grasps |-> grasps_as_pose_array, sel |-> selected_pose]
    /\ earlier' = [op |-> last.op, chkAll |-> last.chkAll, len |-> Len(prev.grasps.poses),
                   name |-> last.name, outcome |-> last.outcome]
    /\ UNCHANGED << place, tool >>

\* handle_select_obj_path_button: the dialog returns a file name, or None on cancel
SelectObjPath ==
    /\ CanPress
    /\ \E candidate \in Paths \cup {NoPath} :
        /\ grasps_yaml_path' = IF candidate = NoPath THEN grasps_yaml_path ELSE candidate
        /\ Press([NoInputs EXCEPT !.op = "path", !.name = candidate], Self)
        /\ UNCHANGED disk

Load ==
    /\ CanPress
    /\ \E name \in ObjectNames :
        /\ Press([NoInputs EXCEPT !.op = "load", !.name = name],
                 handle_file_load_grasps_button(Self, name))
        /\ UNCHANGED << grasps_yaml_path, disk >>

Save ==
    /\ CanPress
    /\ \E name \in ObjectNames :
        LET saved == handle_file_save_grasps_button(Self, name, grasps_yaml_path, disk)
        IN  /\ Press([NoInputs EXCEPT !.op = "save", !.name = name], saved.self)
            /\ disk' = saved.disk
            /\ UNCHANGED grasps_yaml_path

Select ==
    /\ CanPress
    /\ \E chkAll \in BOOLEAN, num \in Nums, loadSelected \in BOOLEAN :
        /\ chkAll => num = 0
        /\ Press([NoInputs EXCEPT !.op = "select", !.chkAll = chkAll, !.num = num,
                                  !.loadSelected = loadSelected],
                 handle_grasp_s_select_button(Self, chkAll, num, loadSelected))
        /\ UNCHANGED << grasps_yaml_path, disk >>

Unselect ==
    /\ CanPress
    /\ Press([NoInputs EXCEPT !.op = "unselect"], handle_grasp_s_unselect_button(Self))
    /\ UNCHANGED << grasps_yaml_path, disk >>

Delete ==
    /\ CanPress
    /\ \E chkAll \in BOOLEAN, num \in Nums :
        /\ chkAll => num = 0
        /\ Press([NoInputs EXCEPT !.op = "delete", !.chkAll = chkAll, !.num = num],
                 handle_grasp_s_delete_button(Self, chkAll, num))
        /\ UNCHANGED << grasps_yaml_path, disk >>

\* the boxes a handler run did not read are recorded with their default
ApplyMirror ==
    /\ CanPress
    /\ \E chkAll \in BOOLEAN, num \in Nums, axes \in AxisChoices, replace \in BOOLEAN :
        /\ chkAll => num = 0
        /\ ~update_selected_pose(Self, chkAll, num).ret => (axes = NoAxes /\ ~replace)
        /\ Press([NoInputs EXCEPT !.op = "apply", !.pattern = "mirror",
                                  !.chkAll = chkAll, !.num = num, !.axes = axes,
                                  !.replace = replace],
                 handle_edit_g_apply_button(Self, "mirror", chkAll, num, axes, replace, 0, 0))
        /\ UNCHANGED << grasps_yaml_path, disk >>

\* the circular pattern, the "all" checkbox as one of chkAlls
ApplyCircularWith(chkAlls) ==
    /\ CanPress
    /\ \E chkAll \in chkAlls, num \in Nums, axes \in AxisChoices, ang_step \in Steps,
          number_of_grasps \in Counts :
        /\ chkAll => num = 0
        /\ number_of_grasps < 0 => (~chkAll /\ num = 0)
        /\ (number_of_grasps < 0 \/ ~update_selected_pose(Self, chkAll, num).ret)
              => axes = NoAxes
        /\ Press([NoInputs EXCEPT !.op = "apply", !.pattern = "circular",
                                  !.chkAll = chkAll, !.num = num, !.axes = axes,
                                  !.ang_step = ang_step,
                                  !.number_of_grasps = number_of_grasps],
                 handle_edit_g_apply_button(Self, "circular", chkAll, num, axes, FALSE,
                                            ang_step, number_of_grasps))
        /\ UNCHANGED << grasps_yaml_path, disk >>

ApplyCircular == ApplyCircularWith(BOOLEAN)

TransformApply ==
    /\ CanPress
    /\ \E linear \in Linears, angular_rpy \in RPYs :
        /\ Press([NoInputs EXCEPT !.op = "transform", !.linear = linear,
                                  !.angular_rpy = angular_rpy],
                 handle_transform_apply_button(Self, linear, angular_rpy))
        /\ UNCHANGED << grasps_yaml_path, disk >>

CreateGrasp ==
    /\ CanPress
    /\ \E linear \in Linears, angular_rpy \in RPYs :
        /\ Press([NoInputs EXCEPT !.op = "create", !.linear = linear,
                                  !.angular_rpy = angular_rpy],
                 handle_transform_create_grasp_button(Self, linear, angular_rpy))
        /\ UNCHANGED << grasps_yaml_path, disk >>

Next ==
    \/ SelectObjPath
    \/ Load
    \/ Save
    \/ Select
    \/ Unselect
    \/ Delete
    \/ ApplyMirror
    \/ ApplyCircular
    \/ TransformApply
    \/ CreateGrasp

Spec == Init /\ [][Next]_vars

\* ------------------------------------------- the editor on a long pose list

\* std_msgs/Int8, the type of the highlight channel, holds -128 .. 127
Int8Max == 127

\* the number of poses in a long grasp file
LongLen == 127

LongList == [k \in 1..LongLen |-> IF k % 2 = 1 THEN PoseA ELSE PoseB]

\* the editor was started on a grasp file of LongLen poses
LongInit ==
    /\ disk = InitialDisk(LongList)
    /\ grasps_yaml_path = "grasps.yaml"
    /\ grasps_as_pose_array = Construct("grasps.yaml").grasps
    /\ selected_pose = Construct("grasps.yaml").sel
    /\ published = Construct("grasps.yaml").pub
    /\ last = [NoInputs EXCEPT !.outcome = Construct("grasps.yaml").outcome]
    /\ prev = [grasps |-> NoArray, sel |-> SelectNone]
    /\ earlier = [op |-> "none", chkAll |-> FALSE, len |-> 0, name |-> "", outcome |-> "done"]
    /\ actions = 0
    /\ place = PlaceIdle
    /\ tool = ToolIdle(<< >>)

\* the circular pattern from a single pose
ApplyCircularOne == ApplyCircularWith({FALSE})

\* create-grasp and pattern presses
LongNext == CreateGrasp \/ ApplyCircularOne

LongSpec == LongInit /\ [][LongNext]_vars

\* --------------------------- gen_place_poses_from_plane, statement by statement

\* the editor's variables while the placement functions are exercised on their
\* own: no editor was constructed
editor_vars == << grasps_as_pose_array, selected_pose, grasps_yaml_path, disk,
                  published, last, prev, earlier, actions >>

EditorAbsent ==
    /\ grasps_as_pose_array = NoArray
    /\ selected_pose = SelectNone
    /\ grasps_yaml_path = NoPath
    /\ disk = InitialDisk(<< >>)
    /\ published = [highlight |-> SelectNone, grasps |-> NoArray]
    /\ last = [NoInputs EXCEPT !.outcome = "raised"]
    /\ prev = [grasps |-> NoArray, sel |-> SelectNone]
    /\ earlier = [op |-> "none", chkAll |-> FALSE, len |-> 0, name |-> "", outcome |-> "done"]
    /\ actions = 0

\* a call of gen_place_poses_from_plane is about to run its first statement
PlaceInit ==
    /\ EditorAbsent
    /\ \E call \in SmallCalls \cup LargeCalls :
          place = [PlaceIdle EXCEPT !.pc = "call", !.args = call]
    /\ tool = ToolIdle(<< >>)

\* the statements before the loop over the poses
Enter ==
    /\ place.pc = "call"
    /\ place' = [place EXCEPT
                    !.pc = "loop",
                    !.min_dist = relaxed_min_dist(place.args.number_of_poses,
                                                  place.args.min_dist),
                    !.place_poses_id = 1]
    /\ UNCHANGED << editor_vars, tool >>

\* the loop `while 1` is at its head, for a pose still to be made
Sampling == place.pc = "loop" /\ place.done < place.args.number_of_poses

\* the candidate passes: the support object is in ignore_min_dist_list, or the
\* candidate is well separated from the positions accepted before
Passes(candidate) ==
    \/ place.args.ignored
    \/ well_separated(place.x_y_list, candidate[1], candidate[2], place.min_dist)

\* the statements after the loop `while 1` for the position it was left with:
\* the position is recorded, the height is asked for, the poses are appended
Placed(candidate, yaw, warning) ==
    LET h == attached_obj_height(place.args.scene)
        yaws == pose_yaws(place.args.number_of_poses, yaw)
    IN  IF h.raised
        THEN [place EXCEPT !.pc = "raised",
                           !.x_y_list = Append(place.x_y_list, candidate),
                           !.warned = place.warned \/ warning]
        ELSE [place EXCEPT !.x_y_list = Append(place.x_y_list, candidate),
                           !.objects = place.objects \o
                               NewObjects(place.args.object_class, candidate, h.z, yaws,
                                          place.place_poses_id),
                           !.place_poses_id = place.place_poses_id + Len(yaws),
                           !.done = place.done + 1,
                           !.count = 0,
                           !.warned = place.warned \/ warning]

\* a candidate is drawn and passes
Accept ==
    /\ Sampling
    /\ \E candidate \in Candidates(place.args.plane), yaw \in YawDraws :
          /\ Passes(candidate)
          /\ place' = Placed(candidate, yaw, FALSE)
    /\ UNCHANGED << editor_vars, tool >>

\* a candidate is drawn and fails, below the cap: the loop goes round
Reject ==
    /\ Sampling
    /\ \E candidate \in Candidates(place.args.plane) :
          /\ ~Passes(candidate)
          /\ retry_counted(place.count) <= RetryCap
          /\ place' = [place EXCEPT !.count = retry_counted(place.count)]
    /\ UNCHANGED << editor_vars, tool >>

\* a candidate is drawn and fails, and count passes the cap: a warning is
\* logged and the loop is left with that candidate
GiveUp ==
    /\ Sampling
    /\ \E candidate \in Candidates(place.args.plane), yaw \in YawDraws :
          /\ ~Passes(candidate)
          /\ retry_counted(place.count) > RetryCap
          /\ place' = Placed(candidate, yaw, TRUE)
    /\ UNCHANGED << editor_vars, tool >>

\* range(1, number_of_poses + 1) is used up: return object_list_msg
Return ==
    /\ place.pc = "loop"
    /\ place.done >= place.args.number_of_poses
    /\ place' = [place EXCEPT !.pc = "returned"]
    /\ UNCHANGED << editor_vars, tool >>

PlaceNext ==
    \/ Enter
    \/ Accept
    \/ Reject
    \/ GiveUp
    \/ Return

PlaceSpec == PlaceInit /\ [][PlaceNext]_vars

\* the call is not suspended for ever: a function that can take a step takes it
PlaceLive == PlaceInit /\ [][PlaceNext]_vars /\ WF_vars(PlaceNext)

\* ------------- adjust_plane, obj_to_plane, gen_insert_poses_from_obj, one call each

ToolsInit ==
    /\ EditorAbsent
    /\ place = PlaceIdle
    /\ \E plane \in StartPlanes : tool = ToolIdle(plane)

\* one call returned or raised: the caller keeps its plane when it raised
Called(op, args, result, objects, candidate) ==
    tool' = [calls |-> tool.calls + 1, op |-> op, args |-> args, input |-> tool.plane,
             raised |-> result.raised,
             plane |-> IF result.raised THEN tool.plane ELSE result.points,
             objects |-> objects, candidate |-> candidate,
             before |-> [op |-> tool.op, args |-> tool.args, input |-> tool.input,
                         raised |-> tool.raised]]

AdjustPlane ==
    /\ tool.calls < MaxCalls
    /\ \E a \in AdjustArgs :
          Called("adjust_plane", a,
                 adjust_plane(tool.plane, a.x_extend, a.y_extend, a.x_offset, a.y_offset),
                 << >>, << >>)
    /\ UNCHANGED << editor_vars, place >>

ObjToPlane ==
    /\ tool.calls < MaxCalls
    /\ \E object \in SceneObjects, tf_exports \in BOOLEAN :
          Called("obj_to_plane",
                 [object |-> object, offset |-> PlaneOffset, tf_exports |-> tf_exports],
                 obj_to_plane(object, PlaneOffset, tf_exports), << >>, << >>)
    /\ UNCHANGED << editor_vars, place >>

\* candidate_x, candidate_y of gen_place_poses_from_plane on the plane at hand
SamplePosition ==
    /\ tool.calls < MaxCalls
    /\ \E candidate \in Candidates(PlaneOfPoints(tool.plane)) :
          Called("sample", << >>, [raised |-> FALSE, points |-> tool.plane],
                 << >>, candidate)
    /\ UNCHANGED << editor_vars, place >>

GenInsertPoses ==
    /\ tool.calls < MaxCalls
    /\ \E a \in InsertArgs :
          Called("gen_insert_poses_from_obj", a, [raised |-> FALSE, points |-> tool.plane],
                 gen_insert_poses_from_obj(a.object_class, a.support_object_pose,
                                           a.obj_height, a.same),
                 << >>)
    /\ UNCHANGED << editor_vars, place >>

ToolsNext == AdjustPlane \/ ObjToPlane \/ SamplePosition \/ GenInsertPoses

ToolsSpec == ToolsInit /\ [][ToolsNext]_vars

\* ------------------------------------------------------------ the claims

\* the pose list now, and before the last handler run
Poses == grasps_as_pose_array.poses

Before == prev.grasps.poses

\* i is an index of the list ps, counted from 0
ValidIndex(ps, i) == 0 <= i /\ i < Len(ps)

\* the last handler run was the named button, pressed in a started editor
Pressed(op) == Started /\ last.op = op

\* C1: after any sequence of editor actions the selection is none (-1), all
\* (-10) or an index i with 0 <= i < length of the pose list.
C1_SelectionWellFormed ==
    Started => \/ selected_pose = SelectNone
               \/ selected_pose = SelectAll
               \/ ValidIndex(Poses, selected_pose)

\* C2: Select with a numeric index i is accepted (the selection becomes i) only
\* when 0 <= i < length; for every other integer it reports an error and leaves
\* the selection and the pose list unchanged.
C2_SelectRejectsOutOfRange ==
    (Pressed("select") /\ ~last.chkAll) =>
        IF ValidIndex(Before, last.num)
        THEN selected_pose = last.num /\ grasps_as_pose_array = prev.grasps
        ELSE /\ last.outcome = "reported"
             /\ selected_pose = prev.sel
             /\ grasps_as_pose_array = prev.grasps

\* the last two handler runs were Delete with "all" checked, the first of them
\* on a list of at least n poses
TwoDeleteAll(n) ==
    /\ Pressed("delete") /\ last.chkAll
    /\ earlier.op = "delete" /\ earlier.chkAll /\ earlier.len >= n

\* C3 as stated: from any non-empty list (length 1 included) one Delete with
\* "all" checked leaves the single-element list of the original first pose, and
\* two such Deletes in succession leave the empty list.
C3_DeleteAllKeepsFirst ==
    /\ (Pressed("delete") /\ last.chkAll /\ Len(Before) >= 1)
          => Poses = << Before[1] >>
    /\ TwoDeleteAll(1) => Poses = << >>

\* C3 amended: from a list of at least two poses one Delete with "all" checked
\* leaves the single-element list of the original first pose; from a list of
\* one pose it leaves the empty list; two such Deletes in succession from any
\* non-empty list leave the empty list.
C3_DeleteAll ==
    /\ (Pressed("delete") /\ last.chkAll /\ Len(Before) >= 2)
          => Poses = << Before[1] >>
    /\ (Pressed("delete") /\ last.chkAll /\ Len(Before) = 1)
          => Poses = << >>
    /\ TwoDeleteAll(1) => Poses = << >>

\* two Deletes with "all" checked in a row emptied a list of three poses
C3_Witness ==
    /\ TwoDeleteAll(3)
    /\ Before = << PoseA >>
    /\ Poses = << >>

\* the file the path names holds a mapping with the class of the name typed
Loadable(object_name) ==
    /\ grasps_yaml_path \in Paths
    /\ disk[grasps_yaml_path].kind = "mapping"
    /\ disk[grasps_yaml_path].class = remove_object_id(object_name)

\* C4: a successful Load replaces the pose list with the poses of the file and
\* leaves the selection none, whatever it was before.
C4_LoadClearsSelection ==
    (Pressed("load") /\ Loadable(last.name)) =>
        /\ Poses = disk[grasps_yaml_path].poses
        /\ selected_pose = SelectNone

\* C5: a Load that fails (missing file, invalid YAML, class key absent) is
\* reported without raising and leaves the pose list and the selection unchanged.
C5_FailedLoadReported ==
    (Pressed("load") /\ ~Loadable(last.name)) =>
        /\ last.outcome = "reported"
        /\ grasps_as_pose_array = prev.grasps
        /\ selected_pose = prev.sel

\* C6: with "all" unchecked and a valid index i, Delete removes exactly the pose
\* at index i: the list is one shorter and the other poses keep their order.
C6_DeleteIndex ==
    (Pressed("delete") /\ ~last.chkAll /\ ValidIndex(Before, last.num)) =>
        /\ Len(Poses) = Len(Before) - 1
        /\ \A k \in 1..Len(Poses) :
              Poses[k] = IF k <= last.num THEN Before[k] ELSE Before[k + 1]

\* the middle pose of three was deleted
C6_Witness ==
    /\ Pressed("delete") /\ ~last.chkAll /\ last.num = 1
    /\ Before = << PoseA, PoseB, PoseA >>
    /\ Poses = << PoseA, PoseA >>

\* C7: after every Delete that takes the "all" branch or the single-index
\* branch (its index was not rejected) the selection is none.
C7_DeleteResetsSelection ==
    (Pressed("delete") /\ (last.chkAll \/ last.num < Len(Before))) =>
        selected_pose = SelectNone

\* C8: after every editor action that changed the pose list or the selection,
\* the last pair published is the current pose list and the current selection.
C8_PublishedIsCurrent ==
    (Started /\ last.op /= "init"
       /\ (grasps_as_pose_array /= prev.grasps \/ selected_pose /= prev.sel)) =>
        published = [highlight |-> selected_pose, grasps |-> grasps_as_pose_array]

\* the last handler run was a Mirror that was carried out on the poses the
\* selection designated: one valid index, or all
MirrorApplied ==
    /\ Pressed("apply") /\ last.pattern = "mirror" /\ last.outcome = "done"
    /\ (prev.sel = SelectAll \/ ValidIndex(Before, prev.sel))

\* the source poses of that Mirror
Sources == IF prev.sel = SelectAll THEN Before ELSE << Before[prev.sel + 1] >>

\* a pose turned by half a turn about each checked axis
MirrorOf(pose, axes) ==
    [position |-> pose.position,
     orientation |-> rotate_quaternion(pose.orientation, AxisAngle(axes[1], 1),
                                       AxisAngle(axes[2], 1), AxisAngle(axes[3], 1))]

Mirrored(ps, axes) == [j \in 1..Len(ps) |-> MirrorOf(ps[j], axes)]

RECURSIVE BagOfSeq(_)
BagOfSeq(ps) == IF ps = << >> THEN EmptyBag ELSE SetToBag({Head(ps)}) (+) BagOfSeq(Tail(ps))

\* C9: Mirror on k source poses (1 for a single selection, n for "all") without
\* "replace original" gives the n poses unchanged followed by the k mirrored
\* copies; with "replace original" the length stays n, each source pose is
\* replaced by its mirrored copy and the other poses are kept.
C9_MirrorAppendsOrReplaces ==
    MirrorApplied =>
        IF ~last.replace
        THEN Poses = Before \o Mirrored(Sources, last.axes)
        ELSE /\ Len(Poses) = Len(Before)
             /\ BagOfSeq(Poses) =
                   (BagOfSeq(Before) (-) BagOfSeq(Sources))
                       (+) BagOfSeq(Mirrored(Sources, last.axes))

\* every pose of a list of three was replaced by its mirror image about z
C9_Witness ==
    /\ MirrorApplied /\ last.replace /\ prev.sel = SelectAll
    /\ last.axes = << FALSE, FALSE, TRUE >>
    /\ Len(Before) = 3
    /\ Poses /= Before

\* q and -q are the same rotation
Negated(q) == << 0 - q[1], 0 - q[2], 0 - q[3], 0 - q[4] >>

SameRotation(q1, q2) == q1 = q2 \/ q1 = Negated(q2)

OneAxis(axes) ==
    axes \in { << TRUE, FALSE, FALSE >>, << FALSE, TRUE, FALSE >>, << FALSE, FALSE, TRUE >> }

AllAxes(axes) == axes = << TRUE, TRUE, TRUE >>

\* C10: the copy a Mirror about one axis appended, mirrored once more about the
\* same axis, has the orientation of its source up to sign; the copy a Mirror
\* about all three axes appended has the orientation of its source.
C10_MirrorInvolution ==
    (MirrorApplied /\ ~last.replace) =>
        \A j \in 1..Len(Sources) :
            LET copy == Poses[Len(Before) + j]
            IN  /\ OneAxis(last.axes) =>
                      SameRotation(MirrorOf(copy, last.axes).orientation,
                                   Sources[j].orientation)
                /\ AllAxes(last.axes) =>
                      SameRotation(copy.orientation, Sources[j].orientation)

\* a pose of general orientation was mirrored about the y axis alone
C10_Witness ==
    /\ MirrorApplied /\ ~last.replace
    /\ last.axes = << FALSE, TRUE, FALSE >>
    /\ Sources = << PoseA >>
    /\ Poses[Len(Poses)].orientation /= PoseA.orientation

\* the last handler run was a Circular pattern that was carried out, with a
\* count of at least 1, on the poses the selection designated
CircularApplied ==
    /\ Pressed("apply") /\ last.pattern = "circular" /\ last.outcome = "done"
    /\ last.number_of_grasps >= 1
    /\ (prev.sel = SelectAll \/ ValidIndex(Before, prev.sel))

\* a pose turned by `turns` half turns about each checked axis
TurnedBy(pose, axes, turns) ==
    [position |-> pose.position,
     orientation |-> rotate_quaternion(pose.orientation, AxisAngle(axes[1], turns),
                                       AxisAngle(axes[2], turns), AxisAngle(axes[3], turns))]

\* C11: a Circular pattern with step S about one checked axis and count N >= 1
\* appends N-1 poses per source pose and keeps the poses it found; the k-th pose
\* appended for a source is that source turned by k*S, up to a full turn.
C11_CircularChain ==
    (CircularApplied /\ OneAxis(last.axes)) =>
        LET N == last.number_of_grasps
            S == last.ang_step
        IN  /\ Len(Poses) = Len(Before) + Len(Sources) * (N - 1)
            /\ SubSeq(Poses, 1, Len(Before)) = Before
            /\ \A j \in 1..Len(Sources) : \A k \in 1..(N - 1) :
                  LET made == Poses[Len(Before) + (j - 1) * (N - 1) + k]
                      want == TurnedBy(Sources[j], last.axes, k * S)
                  IN  /\ made.position = want.position
                      /\ SameRotation(made.orientation, want.orientation)

\* a pose of general orientation got a chain of at least two poses about z
C11_Witness ==
    /\ CircularApplied /\ last.axes = << FALSE, FALSE, TRUE >>
    /\ last.number_of_grasps >= 3
    /\ Sources = << PoseA >>
    /\ Len(Poses) >= Len(Before) + 2
    /\ Poses[Len(Before) + 1].orientation /= PoseA.orientation

\* C12: after a Circular pattern that appended at least one pose, the selection
\* is the index of the last pose of the list, also when it was "all" before.
C12_CircularSelectsLast ==
    (Pressed("apply") /\ last.pattern = "circular" /\ Len(Poses) > Len(Before)) =>
        selected_pose = Len(Poses) - 1

\* a Circular pattern on "all" of several poses ended with the last pose selected
C12_Witness ==
    /\ Pressed("apply") /\ last.pattern = "circular"
    /\ prev.sel = SelectAll /\ last.chkAll
    /\ Len(Before) >= 2 /\ Len(Poses) > Len(Before)
    /\ selected_pose = Len(Poses) - 1

\* C13: a Circular pattern with a negative count is reported as an error and
\* leaves the pose list and the selection unchanged.
C13_NegativeCountReported ==
    (Pressed("apply") /\ last.pattern = "circular" /\ last.number_of_grasps < 0) =>
        /\ last.outcome = "reported"
        /\ grasps_as_pose_array = prev.grasps
        /\ selected_pose = prev.sel

\* C14: Apply Transform keeps the list length and the selection; with the
\* selection "all" or none every orientation is turned by the rotation entered
\* and every position kept; with a single index i selected, pose i becomes the
\* translation and orientation entered and every other pose is kept.
C14_TransformEffect ==
    Pressed("transform") =>
        LET t == read_transform(last.linear, last.angular_rpy)
        IN  /\ Len(Poses) = Len(Before)
            /\ selected_pose = prev.sel
            /\ (prev.sel = SelectAll \/ prev.sel = SelectNone) =>
                  \A k \in 1..Len(Before) :
                      /\ Poses[k].position = Before[k].position
                      /\ Poses[k].orientation =
                            rotate_quaternion(Before[k].orientation, last.angular_rpy[1],
                                              last.angular_rpy[2], last.angular_rpy[3])
            /\ ValidIndex(Before, prev.sel) =>
                  \A k \in 1..Len(Before) :
                      Poses[k] = IF k = prev.sel + 1
                                 THEN [position |-> t.linear, orientation |-> t.angular_q]
                                 ELSE Before[k]

\* the second pose of a list was replaced by the transform entered
C14_Witness ==
    /\ Pressed("transform") /\ prev.sel = 1 /\ Len(Before) >= 2
    /\ last.angular_rpy = << 1, 0, 1 >>
    /\ Poses[2].position = last.linear
    /\ Poses[2] /= Before[2]
    /\ Poses[1] = Before[1]

\* C15: Create Grasp appends one pose built from the transform fields at the
\* end of the list, keeps the earlier poses and selects the new pose.
C15_CreateAppendsAndSelects ==
    Pressed("create") =>
        LET t == read_transform(last.linear, last.angular_rpy)
        IN  /\ Poses = Before \o << [position |-> t.linear, orientation |-> t.angular_q] >>
            /\ selected_pose = Len(Poses) - 1

\* a grasp was created behind two poses
C15_Witness ==
    /\ Pressed("create") /\ Len(Before) = 2
    /\ Len(Poses) = 3 /\ selected_pose = 2
    /\ Poses[3].position = last.linear

\* the last two handler runs were a Save that ended well and a Load, both with
\* the same object name (and file: the path did not change in between)
SaveThenLoad ==
    /\ Pressed("load")
    /\ earlier.op = "save" /\ earlier.outcome = "done"
    /\ earlier.name = last.name

\* C16: Save followed by Load with the same object name (an instance id suffix
\* included) and the same file succeeds and restores the poses in their order,
\* every component rounded to 6 decimals.
C16_SaveLoadRoundTrip ==
    SaveThenLoad =>
        /\ last.outcome = "done"
        /\ Poses = [k \in 1..Len(Before) |-> Written(Before[k])]

\* the call of gen_place_poses_from_plane ended, by return or by an exception
PlaceEnded == place.pc \in {"returned", "raised"}

\* every two positions accepted are farther apart than min_dist
AllApart(x_y_list, min_dist) ==
    \A i \in 1..Len(x_y_list) : \A j \in 1..Len(x_y_list) :
        i < j => FartherThan(x_y_list[i], x_y_list[j][1], x_y_list[j][2], min_dist)

\* C17: gen_place_poses_from_plane always terminates: the rejection loop never
\* counts beyond the retry cap of 50,000, and every call comes to its end.
C17_PlaceTerminates ==
    /\ [](place.count <= 50000)
    /\ <>PlaceEnded

\* a call returned after the cap was hit and the last candidate tried was taken
C17_Witness ==
    /\ place.pc = "returned" /\ place.warned
    /\ place.args.number_of_poses = 2
    /\ Len(place.x_y_list) = 2
    /\ place.x_y_list[1] = place.x_y_list[2]

\* C18: when the support object is not in the ignore list and no retry cap was
\* hit, every two positions accepted by a call that returned are farther apart
\* than the min_dist in force.
C18_AcceptedApart ==
    (place.pc = "returned" /\ ~place.args.ignored /\ ~place.warned) =>
        AllApart(place.x_y_list, place.min_dist)

\* two positions were accepted under a min_dist of 0.2 without a warning
C18_Witness ==
    /\ place.pc = "returned" /\ ~place.args.ignored /\ ~place.warned
    /\ place.min_dist = 2000
    /\ Len(place.x_y_list) = 2
    /\ place.x_y_list[1] /= place.x_y_list[2]

\* C19: a call with number_of_poses = n that returns gives n poses when n <= 20
\* and 7n poses when n > 20, then 7 poses per position with the yaws 0, 0.5,
\* ..., 3.0; the instance ids are 1, 2, ... in output order.
C19_PoseCount ==
    place.pc = "returned" =>
        LET n == place.args.number_of_poses
            sweep == << 0, 5000, 10000, 15000, 20000, 25000, 30000 >>
        IN  /\ Len(place.objects) = IF n > 20 THEN 7 * n ELSE n
            /\ \A k \in 1..Len(place.objects) : place.objects[k].instance_id = k
            /\ n > 20 =>
                  \A p \in 1..n : \A k \in 1..7 :
                      LET made == place.objects[7 * (p - 1) + k]
                      IN  /\ made.rpy[3] = sweep[k]
                          /\ made.position[1] = place.x_y_list[p][1]
                          /\ made.position[2] = place.x_y_list[p][2]

\* a call for 21 poses returned 147
C19_Witness ==
    /\ place.pc = "returned"
    /\ place.args.number_of_poses = 21
    /\ Len(place.objects) = 147

\* C20: the threshold in force is the min_dist asked for when number_of_poses
\* <= 100 and 0.03 when number_of_poses > 100, and it is the one the positions
\* accepted without a warning keep.
C20_RelaxedThreshold ==
    place.pc \in {"loop", "returned", "raised"} =>
        LET enforced == IF place.args.number_of_poses > 100 THEN 300
                        ELSE place.args.min_dist
        IN  /\ place.min_dist = enforced
            /\ (~place.args.ignored /\ ~place.warned) =>
                  AllApart(place.x_y_list, enforced)

\* a call for 101 poses with a min_dist of 0.2 ran with 0.03
C20_Witness ==
    /\ place.pc = "returned"
    /\ place.args.number_of_poses = 101
    /\ place.args.min_dist = 2000
    /\ place.min_dist = 300

\* the smallest and largest x and y of a list of points
Bounds(points) ==
    [min_x |-> SetMin({ points[k].x : k \in 1..Len(points) }),
     max_x |-> SetMax({ points[k].x : k \in 1..Len(points) }),
     min_y |-> SetMin({ points[k].y : k \in 1..Len(points) }),
     max_y |-> SetMax({ points[k].y : k \in 1..Len(points) })]

\* the corners of the bounds b at height z, anticlockwise from the smallest
CornersOf(b, z) ==
    << Pt(b.min_x, b.min_y, z), Pt(b.max_x, b.min_y, z),
       Pt(b.max_x, b.max_y, z), Pt(b.min_x, b.max_y, z) >>

\* the last call was adjust_plane and it returned
AdjustReturned == tool.op = "adjust_plane" /\ ~tool.raised

OnlyExtendX(d) == [x_extend |-> d, y_extend |-> 0, x_offset |-> 0, y_offset |-> 0]

\* the last two calls were adjust_plane with x_extend = d and then, on what
\* that returned, with x_extend = -d, every other delta zero
RoundTrip(d) ==
    /\ AdjustReturned
    /\ tool.before.op = "adjust_plane" /\ ~tool.before.raised
    /\ tool.before.args = OnlyExtendX(d)
    /\ tool.args = OnlyExtendX(0 - d)

\* adjust_plane with all four deltas zero returned the bounding rectangle of
\* its input, and returns the same when given that
ZeroDeltasBoundingRectangle ==
    (AdjustReturned /\ tool.args = OnlyExtendX(0)) =>
        /\ tool.plane = CornersOf(Bounds(tool.input), tool.input[1].z)
        /\ adjust_plane(tool.plane, 0, 0, 0, 0) = [raised |-> FALSE, points |-> tool.plane]

\* C21 as stated: adjust_plane with all four deltas zero returns the bounding
\* rectangle of its input and is idempotent, and for every d, positive or
\* negative, and every coplanar plane x_extend = d followed by x_extend = -d
\* returns the original bounds.
C21_RoundTripEveryExtend ==
    /\ ZeroDeltasBoundingRectangle
    /\ \A d \in Extends :
          RoundTrip(d) => Bounds(tool.plane) = Bounds(tool.before.input)

\* C21 amended: adjust_plane with all four deltas zero returns the bounding
\* rectangle of its input and is idempotent; x_extend = d followed by
\* x_extend = -d returns the original bounds when d is at least minus half the
\* width of the plane; for a smaller d the first call turns the rectangle inside
\* out and the second returns the bounds max_x + 2d .. min_x - 2d in x.
C21_RoundTripWhileNotInverted ==
    /\ ZeroDeltasBoundingRectangle
    /\ \A d \in Extends :
          RoundTrip(d) =>
              LET b == Bounds(tool.before.input)
              IN  IF 2 * d >= b.min_x - b.max_x
                  THEN Bounds(tool.plane) = b
                  ELSE Bounds(tool.plane) =
                          [b EXCEPT !.min_x = b.max_x + 2 * d, !.max_x = b.min_x - 2 * d]

\* a rectangle 0.4 wide was shrunk by 0.3 on each side and grown again by as
\* much: it is 0.8 wide
C21_Witness ==
    /\ RoundTrip(0 - 3000)
    /\ tool.before.input = Rectangle
    /\ Bounds(tool.plane).min_x = 0 - 2000
    /\ Bounds(tool.plane).max_x = 6000

\* C22: adjust_plane raises exactly when its input points have more than one
\* distinct z; otherwise it returns four new points at the z of the input, in
\* the order (min_x - ex, min_y - ey), (max_x + ex, min_y - ey),
\* (max_x + ex, max_y + ey), (min_x - ex, max_y + ey), the minima and maxima
\* taken after the offsets were added; the list it was given stays as it was.
C22_AdjustPlaneResult ==
    tool.op = "adjust_plane" =>
        /\ tool.raised <=> Cardinality(ZValues(tool.input)) > 1
        /\ tool.raised => tool.plane = tool.input
        /\ ~tool.raised =>
              LET b == Bounds(tool.input)
                  a == tool.args
                  z == tool.input[1].z
              IN  tool.plane =
                      << Pt(b.min_x + a.x_offset - a.x_extend,
                            b.min_y + a.y_offset - a.y_extend, z),
                         Pt(b.max_x + a.x_offset + a.x_extend,
                            b.min_y + a.y_offset - a.y_extend, z),
                         Pt(b.max_x + a.x_offset + a.x_extend,
                            b.max_y + a.y_offset + a.y_extend, z),
                         Pt(b.min_x + a.x_offset - a.x_extend,
                            b.max_y + a.y_offset + a.y_extend, z) >>

\* adjust_plane returned for four corners given in another order, with an
\* extension and an offset along both axes
C22_Witness ==
    /\ AdjustReturned
    /\ tool.input = Shuffled
    /\ tool.args = [x_extend |-> 1000, y_extend |-> 500, x_offset |-> 700,
                    y_offset |-> 0 - 300]
    /\ tool.plane[1] = Pt(0 - 300, 0 - 800, 5000)

\* the last call was obj_to_plane
ObjToPlaneCalled == tool.op = "obj_to_plane"

\* the object is a single box
SingleBox(object) ==
    Len(object.primitives) = 1 /\ object.primitives[1].type = BoxType

\* the orientation is a turn about the vertical: no roll and no pitch
Upright(object) == object.orientation[1] = 0 /\ object.orientation[2] = 0

\* C23: obj_to_plane raises when the object is not in the planning scene, is
\* not a single box primitive, or its roll or pitch is nonzero; in every other
\* case it returns exactly four corner points that share one z.
C23_ObjToPlaneRaisesOrReturnsFour ==
    ObjToPlaneCalled =>
        LET object == tool.args.object
        IN  IF object.known /\ SingleBox(object) /\ Upright(object)
            THEN /\ ~tool.raised
                 /\ Len(tool.plane) = 4
                 /\ Cardinality(ZValues(tool.plane)) = 1
            ELSE tool.raised

\* C24: for every box the z of the four corners equals the z of the centre of
\* the box plus half the height of the box plus the clearance offset.
C24_CornersOnTopSurface ==
    (ObjToPlaneCalled /\ ~tool.raised) =>
        LET object == tool.args.object
        IN  \A k \in 1..Len(tool.plane) :
                tool.plane[k].z = object.position[3]
                                    + object.primitives[1].dimensions[3] \div 2
                                    + tool.args.offset

\* the insert poses were generated by the last call
InsertCalled == tool.op = "gen_insert_poses_from_obj"

OnTopSurface(candidate, object) ==
    LET M == quaternion_matrix(object.orientation)
        dx == candidate[1] - object.position[1]
        dy == candidate[2] - object.position[2]
        along == M[1][1] * dx + M[2][1] * dy
        across == M[1][2] * dx + M[2][2] * dy
        half_width == object.primitives[1].dimensions[1] \div 2
        half_depth == object.primitives[1].dimensions[2] \div 2
    IN  /\ 0 - half_width <= along /\ along <= half_width
        /\ 0 - half_depth <= across /\ across <= half_depth

\* C28: every (x, y) that gen_place_poses_from_plane produces from a plane
\* returned by obj_to_plane lies on the top-surface rectangle of the box, for
\* every yaw of the box, and the region it samples is not degenerate when the
\* width and the depth of the box are nonzero.
C28_PositionsOnTopSurface ==
    (tool.op = "sample" /\ tool.before.op = "obj_to_plane" /\ ~tool.before.raised) =>
        LET object == tool.before.args.object
            plane == PlaneOfPoints(tool.plane)
        IN  /\ OnTopSurface(tool.candidate, object)
            /\ (object.primitives[1].dimensions[1] /= 0
                   /\ object.primitives[1].dimensions[2] /= 0)
                  => (plane.x0 /= plane.x1 /\ plane.y0 /= plane.y3)

\* C26: in every state reachable from editor start-up (start-up without object
\* parameters or with a failed initial load, and an empty pose list included)
\* every editor action completes with its documented effect or with a reported
\* error; none ends in an unhandled failure.
C26_NoUnhandledFailure ==
    Started => last.outcome /= "raised"

\* the poses designated by the checkbox and the index that the last handler
\* run read and validated
Designated ==
    IF last.chkAll THEN Before ELSE << Before[last.num + 1] >>

\* C27: the source poses that Apply Pattern transforms are those designated by
\* the selection the same action validates and publishes, also when the "all"
\* checkbox or the index field differs from the stored selection at the moment
\* Apply Pattern is pressed; stated for a Mirror that keeps the originals: the
\* poses appended are the mirrored copies of the poses designated.
C27_PatternSourcesAreSelection ==
    (/\ Pressed("apply") /\ last.pattern = "mirror" /\ last.outcome = "done"
     /\ ~last.replace
     /\ (last.chkAll \/ ValidIndex(Before, last.num)))
        => Poses = Before \o Mirrored(Designated, last.axes)

\* C29: Select, Unselect and Save leave the pose list unchanged (same length,
\* same order, same values), in every state and for every input.
C29_ListKept ==
    (Pressed("select") \/ Pressed("unselect") \/ Pressed("save"))
        => grasps_as_pose_array = prev.grasps

\* Unselect was pressed with pose 0 of two selected: both poses are there
C29_Witness ==
    /\ Pressed("unselect")
    /\ prev.sel = 0
    /\ Poses = << PoseA, PoseB >>

\* C30: every selection index the editor publishes on the highlight channel
\* fits the signed 8-bit type of the channel (-128..127), after any sequence
\* of create-grasp and pattern actions, also on a list of more than 128 poses.
C30_HighlightFitsInt8 ==
    Started => (0 - Int8Max - 1 <= published.highlight /\ published.highlight <= Int8Max)

====
